---- MODULE Spec2Model ----
(***************************************************************************)
(* Model of nv_ingest_client/util/image_disk_utils.py: the disk image      *)
(* exporter save_images_to_disk and its two adapters,                      *)
(* save_images_from_response and save_images_from_ingestor_results.        *)
(*                                                                         *)
(* One behaviour of the model is one call of one entry point.  The loop of *)
(* the exporter is modelled one iteration per step.  The file system and   *)
(* the image library are the environment: every directory creation and     *)
(* every file write may be refused, for any reason the operating system    *)
(* has, which is a nondeterministic choice of the step that makes it.      *)
(***************************************************************************)
EXTENDS Integers, Sequences, FiniteSets, TLC

(* ------------------------------ bounds --------------------------------- *)

\* longest record list handed to save_images_to_disk or found under "data"
MaxDocs == 2

\* most elements of the nested list given to save_images_from_ingestor_results
MaxGroups == 2

(* --------------------------- optional values --------------------------- *)

\* a key that is absent from a dict is <<>>, a key that is present is <<v>>
Absent == <<>>

Some(v) == <<v>>

\* dict.get(key, default)
Get(opt, default) == IF opt = Absent THEN default ELSE opt[1]

(* ------------------------------ strings -------------------------------- *)
\* Strings that the code takes apart (source_id, image_type) are sequences
\* of one-character strings; Join turns such a sequence into a string.

RECURSIVE Join(_)
Join(cs) == IF cs = <<>> THEN "" ELSE Head(cs) \o Join(Tail(cs))

LowerLetters == <<"a", "b", "c", "d", "e", "f", "g", "h", "i", "j", "k", "l", "m",
                  "n", "o", "p", "q", "r", "s", "t", "u", "v", "w", "x", "y", "z">>

UpperLetters == <<"A", "B", "C", "D", "E", "F", "G", "H", "I", "J", "K", "L", "M",
                  "N", "O", "P", "Q", "R", "S", "T", "U", "V", "W", "X", "Y", "Z">>

Digits == <<"0", "1", "2", "3", "4", "5", "6", "7", "8", "9">>

Range(s) == {s[i] : i \in DOMAIN s}

\* str.lower() of one character
LowerChar(c) ==
    IF c \in Range(UpperLetters)
    THEN LowerLetters[CHOOSE i \in DOMAIN UpperLetters : UpperLetters[i] = c]
    ELSE c

\* str.upper() of one character
UpperChar(c) ==
    IF c \in Range(LowerLetters)
    THEN UpperLetters[CHOOSE i \in DOMAIN LowerLetters : LowerLetters[i] = c]
    ELSE c

\* str.lower()
Lower(cs) == [i \in DOMAIN cs |-> LowerChar(cs[i])]

\* str.upper()
Upper(cs) == [i \in DOMAIN cs |-> UpperChar(cs[i])]

\* decimal digits of a natural number, as the f-string writes it
RECURSIVE DecChars(_)
DecChars(n) == IF n < 10 THEN <<Digits[n + 1]>>
               ELSE DecChars(n \div 10) \o <<Digits[(n % 10) + 1]>>

\* f"{n}" for an integer n
IntChars(n) == IF n < 0 THEN <<"-">> \o DecChars(0 - n) ELSE DecChars(n)

\* os.path.basename: what follows the last "/"
RECURSIVE Basename(_)
Basename(cs) ==
    IF cs = <<>> THEN <<>>
    ELSE IF "/" \in Range(Tail(cs)) \/ Head(cs) = "/" THEN Basename(Tail(cs))
    ELSE cs

\* characters get_valid_filename keeps
SafeChars == Range(LowerLetters) \cup Range(UpperLetters) \cup Range(Digits)
             \cup {"-", "_", "."}

\* get_valid_filename: a blank becomes "_", any other unsafe character is dropped
RECURSIVE GetValidFilename(_)
GetValidFilename(cs) ==
    IF cs = <<>> THEN <<>>
    ELSE LET c == Head(cs)
             rest == GetValidFilename(Tail(cs))
         IN  IF c = " " THEN <<"_">> \o rest
             ELSE IF c \in SafeChars THEN <<c>> \o rest
             ELSE rest

(* ------------------------------ the input ------------------------------ *)

\* the caller's output_directory
OutputDirectory == "out"

\* the keyword parameters of save_images_to_disk that decide what is saved
\* and where; count_images, which only decides whether the summary is
\* logged, is read once after the loop and is chosen there
FlagNames == {"save_charts", "save_tables", "save_infographics", "save_page_images",
              "save_raw_images", "organize_by_type"}

\* every combination of these boolean parameters
FlagSets == [FlagNames -> BOOLEAN]

\* the defaults of the signature of save_images_to_disk
DefaultFlags == [save_charts |-> TRUE, save_tables |-> TRUE, save_infographics |-> TRUE,
                 save_page_images |-> FALSE, save_raw_images |-> FALSE,
                 organize_by_type |-> TRUE]

\* A document result.  metadata is "mapping" (a dict, whose keys are the
\* other fields), "absent" (no "metadata" key) or, for a value that is not
\* a dict, the name of its type ("NoneType" for None, "str", "list", ...).
\* content is a base64 string: "image" stands for the base64 of a valid
\* raster image, "corrupt" for the base64 of bytes that are no image; the
\* strings of InvalidBase64 are themselves the content; "" is the empty
\* string.
Doc(dt, content, src, st, pg, it) ==
    [document_type |-> dt, metadata |-> "mapping", content |-> content,
     source_id |-> src, subtype |-> st, page_number |-> pg, image_type |-> it]

NoMetadata(dt, kind) ==
    [document_type |-> dt, metadata |-> kind, content |-> Absent,
     source_id |-> Absent, subtype |-> Absent, page_number |-> Absent,
     image_type |-> Absent]

SrcReport == <<"a", "/", "r", ".", "p">>

SrcBlank == <<"r", " ", "1">>

SrcTricky == <<"r", "_", "p", "0", "_", "1">>

TypePng == <<"p", "n", "g">>

TypeJpegUpper == <<"J", "P", "E", "G">>

TypeJpeg == <<"j", "p", "e", "g">>

TypeGif == <<"G", "i", "f">>

\* the document results the calls are made with
Documents ==
    { Doc(Some("structured"), Some("image"), Some(SrcReport), Some("chart"), Some(2), Absent),
      Doc(Some("structured"), Some("image"), Some(SrcReport), Some("table"), Absent, Some(TypeJpeg)),
      Doc(Some("structured"), Some("image"), Some(SrcTricky), Some("infographic"), Some(0), Absent),
      Doc(Some("image"), Some("image"), Some(SrcReport), Some("page_image"), Some(2), Some(TypePng)),
      Doc(Some("image"), Some("image"), Some(SrcBlank), Some("figure"), Some(1), Some(TypeGif)),
      Doc(Some("image"), Some("image"), Absent, Some("chart"), Some(0), Some(TypeJpegUpper)),
      Doc(Some("structured"), Some("abc"), Some(SrcReport), Some("chart"), Some(2), Absent),
      Doc(Some("image"), Some("corrupt"), Some(SrcReport), Absent, Some(2), Absent),
      Doc(Absent, Some("image"), Some(SrcReport), Absent, Some(0), Absent),
      Doc(Some("structured"), Some(""), Some(SrcReport), Some("chart"), Some(2), Absent),
      NoMetadata(Some("image"), "absent"),
      NoMetadata(Some("structured"), "NoneType") }

\* the document results of the lists of more than one record: a chart and
\* a raw image that can be saved, a chart whose image type is JPEG, a chart
\* whose content is no base64, a record without document_type and subtype,
\* which no flag selects, a record whose metadata is None
ListDocuments ==
    { Doc(Some("structured"), Some("image"), Some(SrcReport), Some("chart"), Some(2), Absent),
      Doc(Some("image"), Some("image"), Some(SrcBlank), Some("figure"), Some(1), Some(TypeGif)),
      Doc(Some("image"), Some("image"), Absent, Some("chart"), Some(0), Some(TypeJpegUpper)),
      Doc(Some("structured"), Some("abc"), Some(SrcReport), Some("chart"), Some(2), Absent),
      Doc(Absent, Some("image"), Some(SrcReport), Absent, Some(0), Absent),
      NoMetadata(Some("structured"), "NoneType") }

\* the record lists of at most n document results: the empty list, every
\* document result alone, and the longer lists of ListDocuments
DocLists(n) ==
    {<<>>} \cup [1..1 -> Documents] \cup UNION {[1..k -> ListDocuments] : k \in 2..n}

(* ----------------------- one record of the pass ------------------------ *)

\* document.get("document_type", "unknown")
DocTypeOf(doc) == Get(doc.document_type, "unknown")

\* metadata.get("content") is truthy
HasContent(doc) ==
    IF doc.metadata # "mapping" \/ doc.content = Absent THEN FALSE
    ELSE doc.content[1] # ""

\* source_metadata.get("source_id", f"document_{doc_idx}")
SourceId(doc, doc_idx) ==
    Get(doc.source_id,
        <<"d", "o", "c", "u", "m", "e", "n", "t", "_">> \o IntChars(doc_idx))

\* get_valid_filename(os.path.basename(source_id))
CleanSourceName(doc, doc_idx) == Join(GetValidFilename(Basename(SourceId(doc, doc_idx))))

\* content_metadata.get("subtype", "image")
SubtypeOf(doc) == Get(doc.subtype, "image")

\* content_metadata.get("page_number", 0)
PageNumberOf(doc) == Get(doc.page_number, 0)

\* the four subtypes with a flag of their own
NamedSubtypes == {"chart", "table", "infographic", "page_image"}

\* a slip: the raw-image branch does not look at the subtype
IsRawImage_AnySubtype(subtype, doc_type, p) ==
    doc_type = "image" /\ p.save_raw_images

\* the raw-image branch of the filter
IsRawImage(subtype, doc_type, p) ==
    doc_type = "image" /\ subtype \notin NamedSubtypes /\ p.save_raw_images

\* should_save after the if/elif chain
ShouldSave(subtype, doc_type, p) ==
    IF subtype = "chart" /\ p.save_charts THEN TRUE
    ELSE IF subtype = "table" /\ p.save_tables THEN TRUE
    ELSE IF subtype = "infographic" /\ p.save_infographics THEN TRUE
    ELSE IF subtype = "page_image" /\ p.save_page_images THEN TRUE
    ELSE IsRawImage(subtype, doc_type, p)

\* subtype after the if/elif chain: the raw-image branch sets it to "image"
NormalizedSubtype(subtype, doc_type, p) ==
    IF subtype = "chart" /\ p.save_charts THEN subtype
    ELSE IF subtype = "table" /\ p.save_tables THEN subtype
    ELSE IF subtype = "infographic" /\ p.save_infographics THEN subtype
    ELSE IF subtype = "page_image" /\ p.save_page_images THEN subtype
    ELSE IF IsRawImage(subtype, doc_type, p) THEN "image"
    ELSE subtype

\* image_type: "png" unless the document is an image
ImageTypeOf(doc) ==
    IF DocTypeOf(doc) = "image" THEN Lower(Get(doc.image_type, TypePng))
    ELSE TypePng

\* a slip: the name leaves the index out
ImageFilename_NoIndex(name, subtype, page_number, doc_idx, image_type, organize_by_type) ==
    IF organize_by_type
    THEN name \o "_p" \o Join(IntChars(page_number)) \o "." \o Join(image_type)
    ELSE name \o "_" \o subtype \o "_p" \o Join(IntChars(page_number))
              \o "." \o Join(image_type)

\* image_filename
ImageFilename(name, subtype, page_number, doc_idx, image_type, organize_by_type) ==
    IF organize_by_type
    THEN name \o "_p" \o Join(IntChars(page_number)) \o "_" \o Join(IntChars(doc_idx))
              \o "." \o Join(image_type)
    ELSE name \o "_" \o subtype \o "_p" \o Join(IntChars(page_number)) \o "_"
              \o Join(IntChars(doc_idx)) \o "." \o Join(image_type)

\* os.path.join(directory, name)
PathJoin(directory, name) == directory \o "/" \o name

\* type_dir
TypeDir(subtype) == PathJoin(OutputDirectory, subtype)

\* image_path
ImagePath(name, subtype, page_number, doc_idx, image_type, organize_by_type) ==
    IF organize_by_type
    THEN PathJoin(TypeDir(subtype),
                  ImageFilename(name, subtype, page_number, doc_idx, image_type, TRUE))
    ELSE PathJoin(OutputDirectory,
                  ImageFilename(name, subtype, page_number, doc_idx, image_type, FALSE))

\* image_ext
ImageExt(image_type) == IF image_type = TypeJpeg THEN <<"j", "p", "g">> ELSE image_type

\* the format argument of image.save: image_ext.upper()
SaveFormat(image_type) == Join(Upper(ImageExt(image_type)))

\* the formats image.save accepts by name (the registry of the image library)
SaveFormats == {"PNG", "JPEG", "GIF", "BMP", "TIFF", "WEBP", "PPM", "ICO"}

\* the six keys of image_counts
CounterKeys == {"chart", "table", "infographic", "page_image", "image", "total"}

\* the mapping a call returns when it has no input: {}
EmptyMapping == [k \in {} |-> 0]

\* image_counts as initialized
InitialCounts == [k \in CounterKeys |-> 0]

\* a slip: the total is not incremented
Increment_NoTotal(counts, subtype) ==
    [counts EXCEPT ![subtype] = @ + 1]

\* image_counts[subtype] += 1; image_counts["total"] += 1
Increment(counts, subtype) ==
    [counts EXCEPT ![subtype] = @ + 1, !["total"] = @ + 1]

\* contents that base64.b64decode rejects
InvalidBase64 == {"abc", "a", "abcde", "not base64!!"}

\* str(e) of the binascii.Error of base64.b64decode: characters outside the
\* alphabet are discarded; a number of data characters that is 1 more than
\* a multiple of 4 is reported as such, any other fault as padding
Base64Error(content) ==
    CASE content = "abc" -> "Incorrect padding"
      [] content = "a" ->
           "Invalid base64-encoded string: number of data characters (1) cannot be 1 more than a multiple of 4"
      [] content = "abcde" ->
           "Invalid base64-encoded string: number of data characters (5) cannot be 1 more than a multiple of 4"
      [] content = "not base64!!" ->
           "Invalid base64-encoded string: number of data characters (9) cannot be 1 more than a multiple of 4"

\* the file system accepts the operation
NoError == ""

\* os.strerror: the message of an error number of the operating system
Strerror(errno) ==
    CASE errno = 1 -> "Operation not permitted"
      [] errno = 2 -> "No such file or directory"
      [] errno = 5 -> "Input/output error"
      [] errno = 6 -> "No such device or address"
      [] errno = 12 -> "Cannot allocate memory"
      [] errno = 13 -> "Permission denied"
      [] errno = 16 -> "Device or resource busy"
      [] errno = 17 -> "File exists"
      [] errno = 19 -> "No such device"
      [] errno = 20 -> "Not a directory"
      [] errno = 21 -> "Is a directory"
      [] errno = 22 -> "Invalid argument"
      [] errno = 23 -> "Too many open files in system"
      [] errno = 24 -> "Too many open files"
      [] errno = 26 -> "Text file busy"
      [] errno = 27 -> "File too large"
      [] errno = 28 -> "No space left on device"
      [] errno = 30 -> "Read-only file system"
      [] errno = 31 -> "Too many links"
      [] errno = 36 -> "File name too long"
      [] errno = 40 -> "Too many levels of symbolic links"
      [] errno = 75 -> "Value too large for defined data type"
      [] errno = 122 -> "Disk quota exceeded"

\* the head of str(e) of an OSError: "[Errno n] message"
ErrnoText(errno) == "[Errno " \o ToString(errno) \o "] " \o Strerror(errno)

\* the error numbers with which the operating system refuses to create a
\* directory
MkdirErrnos == {1, 2, 5, 12, 13, 17, 20, 22, 28, 30, 31, 36, 40, 122}

\* the error numbers with which the operating system refuses to open a
\* file for writing
OpenErrnos == {1, 2, 5, 6, 12, 13, 16, 19, 20, 21, 22, 23, 24, 26, 27, 28, 30, 36,
               40, 75, 122}

\* the refusals of os.makedirs(type_dir, exist_ok=True)
MkdirErrors == {ErrnoText(errno) : errno \in MkdirErrnos}

\* the refusals of the open of image.save
WriteErrors == {ErrnoText(errno) : errno \in OpenErrnos}

\* A text the code builds from an exception.  str(e) may end with the repr
\* of an object, which shows the address the allocator gave the object: the
\* text is kept as what the code determines (text) and the type of that
\* object (object, NoObject when there is none), and Render gives the
\* string for an address.  The code never reads the address.
NoObject == ""

\* a text without the repr of an object
Text(s) == [text |-> s, object |-> NoObject]

\* object.__repr__: "<type object at address>"
ObjectRepr(type, address) == "<" \o type \o " object at " \o address \o ">"

\* the string of a text when its object, if it has one, lies at address
Render(t, address) ==
    IF t.object = NoObject THEN t.text ELSE t.text \o ObjectRepr(t.object, address)

\* the try block that saves the image: decode, open, save.  format is the
\* format name given to image.save, write_error is NoError or the refusal
\* of the file system to open the file.
SaveOutcome(doc, format, write_error) ==
    IF doc.content[1] \in InvalidBase64 THEN "failed"
    ELSE IF doc.content[1] = "corrupt" THEN "failed"
    ELSE IF format \notin SaveFormats THEN "failed"
    ELSE IF write_error # NoError THEN "failed"
    ELSE "saved"

\* str(e) of the OSError of a path the file system refuses
OsErrorText(refusal, path) == refusal \o ": '" \o path \o "'"

\* e of the inner except: binascii.Error of b64decode,
\* UnidentifiedImageError of Image.open (its text ends with the repr of the
\* BytesIO object), KeyError of the format name in image.save, OSError of
\* the open
SaveError(doc, format, image_path, write_error) ==
    IF doc.content[1] \in InvalidBase64 THEN Text(Base64Error(doc.content[1]))
    ELSE IF doc.content[1] = "corrupt"
    THEN [text |-> "cannot identify image file ", object |-> "_io.BytesIO"]
    ELSE IF format \notin SaveFormats THEN Text("'" \o format \o "'")
    ELSE IF write_error # NoError THEN Text(OsErrorText(write_error, image_path))
    ELSE Text("")

\* What an iteration works out from its record before it touches the file
\* system: the metadata, the filter, the names and the path.  stage is
\* "error" (the metadata is no mapping), "skipped" (no content), "excluded"
\* (should_save false) or "selected".
Prepare(doc, doc_idx, p) ==
    LET none == [stage |-> "error", doc |-> doc, subtype |-> "", path |-> "", ext |-> "",
                 format |-> "", type_dir |-> "", name |-> ""]
    IN
    IF doc.metadata \notin {"mapping", "absent"} THEN none
    ELSE IF ~HasContent(doc) THEN [none EXCEPT !.stage = "skipped"]
    ELSE
      LET doc_type == DocTypeOf(doc)
          name == CleanSourceName(doc, doc_idx)
          page_number == PageNumberOf(doc)
          should_save == ShouldSave(SubtypeOf(doc), doc_type, p)
          subtype == NormalizedSubtype(SubtypeOf(doc), doc_type, p)
          image_type == ImageTypeOf(doc)
          image_path == ImagePath(name, subtype, page_number, doc_idx, image_type,
                                  p.organize_by_type)
      IN
      IF ~should_save THEN [none EXCEPT !.stage = "excluded"]
      ELSE [stage |-> "selected",
            doc |-> doc,
            subtype |-> subtype,
            path |-> image_path,
            ext |-> Join(image_type),
            format |-> SaveFormat(image_type),
            type_dir |-> IF p.organize_by_type THEN TypeDir(subtype) ELSE "",
            name |-> name]

\* What the iteration comes to in its environment.  mkdir_error is NoError
\* or the refusal of the file system to create the category subdirectory,
\* write_error the same for the file.  The outcome is "error" (the outer
\* except), "skipped", "excluded", "failed" (the inner except) or "saved";
\* error is the exception that was caught.
Attempt(prep, mkdir_error, write_error) ==
    LET none == [outcome |-> "error", subtype |-> "", path |-> "", ext |-> "",
                 format |-> "", type_dir |-> "", name |-> "", error |-> Text("")]
    IN
    IF prep.stage = "error"
    THEN [none EXCEPT !.error = Text("'" \o prep.doc.metadata
                                    \o "' object has no attribute 'get'")]
    ELSE IF prep.stage \in {"skipped", "excluded"} THEN [none EXCEPT !.outcome = prep.stage]
    ELSE IF prep.type_dir # "" /\ mkdir_error # NoError
    THEN [none EXCEPT !.subtype = prep.subtype, !.name = prep.name,
                      !.error = Text(OsErrorText(mkdir_error, prep.type_dir))]
    ELSE [outcome |-> SaveOutcome(prep.doc, prep.format, write_error),
          subtype |-> prep.subtype,
          path |-> prep.path,
          ext |-> prep.ext,
          format |-> prep.format,
          type_dir |-> prep.type_dir,
          name |-> prep.name,
          error |-> SaveError(prep.doc, prep.format, prep.path, write_error)]

\* one iteration of the loop over response_data
ProcessDocument(doc, doc_idx, p, mkdir_error, write_error) ==
    Attempt(Prepare(doc, doc_idx, p), mkdir_error, write_error)

\* what the iteration may come to when the file system answers the creation
\* of the subdirectory with one of mkdir_errors and the open of the file with
\* one of write_errors
IterationResults(prep, mkdir_errors, write_errors) ==
    {Attempt(prep, mkdir_error, write_error) :
        mkdir_error \in mkdir_errors, write_error \in write_errors}

\* what the history keeps of an iteration: everything but the text of the
\* exception, which goes to the log
Recorded(r) == [f \in DOMAIN r \ {"error"} |-> r[f]]

\* a slip: the counters are updated before the image is saved
CountsAfter_CountsFailures(counts, r) ==
    IF r.outcome \in {"saved", "failed"} THEN Increment(counts, r.subtype) ELSE counts

\* image_counts after the iteration
CountsAfter(counts, r) ==
    IF r.outcome = "saved" THEN Increment(counts, r.subtype) ELSE counts

\* a slip: no outer try block, so an error outside the save leaves the call
PcAfterDocument_NoOuterTry(outcome) == IF outcome = "error" THEN "raised" ELSE "loop"

\* where the call stands after an iteration: both except clauses catch
\* Exception, so the loop goes on whatever the outcome
PcAfterDocument(outcome) == "loop"

\* the lines the iteration logs; the f-string ends with str(e), so the
\* line of an error ends as the text of the exception does
DocumentLog(r, doc_idx) ==
    IF r.outcome = "error"
    THEN <<[r.error EXCEPT !.text = "error: Failed to process document "
                                    \o Join(IntChars(doc_idx)) \o ": " \o @]>>
    ELSE IF r.outcome = "failed"
    THEN <<[r.error EXCEPT !.text = "error: Failed to save " \o r.subtype
                                    \o " image for " \o r.name \o ": " \o @]>>
    ELSE IF r.outcome = "saved"
    THEN <<Text("debug: Saved " \o r.subtype \o " image: " \o r.path)>>
    ELSE <<>>

\* the keys of image_counts in the order the dict holds them
CounterOrder == <<"chart", "table", "infographic", "page_image", "image", "total">>

\* the summary logged after the pass: the total, then every nonzero category
SummaryLog(counts, count_images) ==
    LET Nonzero(k) == k # "total" /\ counts[k] > 0
        keys == SelectSeq(CounterOrder, Nonzero)
    IN
    IF count_images /\ counts["total"] > 0
    THEN <<Text("info: Saved " \o Join(IntChars(counts["total"])) \o " images to "
                \o OutputDirectory)>>
         \o [i \in DOMAIN keys |->
                Text("info:   - " \o keys[i] \o ": " \o Join(IntChars(counts[keys[i]])))]
    ELSE IF count_images THEN <<Text("info: No images were saved")>>
    ELSE <<>>

(* ---------------------------- the adapters ----------------------------- *)

\* a slip: the single results are collected after the lists
RECURSIVE Flatten_SinglesLast(_)
Flatten_SinglesLast(results) ==
    IF results = <<>> THEN <<>>
    ELSE LET doc_results == Head(results)
         IN  IF doc_results.is_list
             THEN doc_results.docs \o Flatten_SinglesLast(Tail(results))
             ELSE Flatten_SinglesLast(Tail(results)) \o <<doc_results.docs[1]>>

\* all_documents of save_images_from_ingestor_results: an element that is
\* a list is extended into the result, any other element is appended
RECURSIVE Flatten(_)
Flatten(results) ==
    IF results = <<>> THEN <<>>
    ELSE LET doc_results == Head(results)
         IN  (IF doc_results.is_list THEN doc_results.docs ELSE <<doc_results.docs[1]>>)
             \o Flatten(Tail(results))

\* a slip: the keyword arguments are not passed on
ResponseKwargs_Dropped(kw) == DefaultFlags

\* what save_images_from_response hands to the exporter as keyword arguments
ResponseKwargs(kw) == kw

\* a slip: nothing saved is reported as no input
ReturnValue_EmptyWhenZero(counts) ==
    IF counts["total"] = 0 THEN EmptyMapping ELSE counts

\* return image_counts
ReturnValue(counts) == counts

\* "data" not in response or not response["data"]
NoData(response) == IF response.data = Absent THEN TRUE ELSE response.data[1] = <<>>

(* --------------------------- the state machine ------------------------- *)
\* The log is an output stream that the code never reads back: logged holds
\* the lines of the latest step, and trace keeps of every iteration what
\* the code computed, without the text of the exception it logged.  A line
\* is a text as Render takes it: the string the logger wrote is
\* Render(line, address) for the address of the object the line ends with.

VARIABLES
    entry,          \* the function the caller called
    arg,            \* its first argument
    kwargs,         \* the keyword arguments the caller gave
    pc,             \* "call", "export", "loop", "returned" or "raised"
    response_data,  \* response_data of save_images_to_disk
    params,         \* the keyword parameters of save_images_to_disk
    doc_idx,        \* the index of the next record of the loop
    image_counts,   \* the counters
    dirs,           \* the directories the call created
    files,          \* the files the call wrote
    logged,         \* the lines the latest step wrote to the log, as texts
    trace,          \* history: one entry per iteration of the loop
    faults,         \* environment: the refusals of the file system so far
    result          \* the returned mapping

vars == <<entry, arg, kwargs, pc, response_data, params, doc_idx, image_counts,
          dirs, files, logged, trace, faults, result>>

\* every flag on
AllOn == [f \in FlagNames |-> TRUE]

\* the keyword arguments of the calls with more than one record and of the
\* calls of the adapters: the defaults, and every flag on without
\* subdirectories
CallFlagSets == {DefaultFlags, [AllOn EXCEPT !.organize_by_type = FALSE]}

\* the keyword arguments of the calls of the adapters
AdapterFlagSets == CallFlagSets

\* the keyword arguments a record list is exported with: the filter looks at
\* one record at a time, so a list of one record is tried with every
\* combination of the flags
FlagSetsFor(records) == IF Len(records) <= 1 THEN FlagSets ELSE CallFlagSets

\* the document results the adapters are called with
AdapterDocuments ==
    { Doc(Some("structured"), Some("image"), Some(SrcReport), Some("chart"), Some(2), Absent),
      Doc(Some("image"), Some("image"), Some(SrcBlank), Some("figure"), Some(1), Some(TypeGif)),
      NoMetadata(Some("structured"), "NoneType") }

\* the document results found in the nested lists
RecChart == Doc(Some("structured"), Some("image"), Some(SrcReport), Some("chart"), Some(2), Absent)

RecFigure == Doc(Some("image"), Some("image"), Some(SrcBlank), Some("figure"), Some(1), Some(TypeGif))

\* an element of the nested list: a list of document results (docs is the
\* list) or a single one (docs holds it)
ResultElements ==
    {[is_list |-> TRUE, docs |-> l] :
        l \in {<<>>, <<RecChart>>, <<RecChart, RecFigure>>}}
    \cup {[is_list |-> FALSE, docs |-> <<d>>] : d \in {RecChart, RecFigure}}

\* the envelopes: no "data" key, or a list under it
Responses ==
    {[data |-> Absent]}
    \cup {[data |-> Some(l)] : l \in UNION {[1..k -> AdapterDocuments] : k \in 0..MaxDocs}}

Fresh ==
    /\ doc_idx = 0
    /\ image_counts = EmptyMapping
    /\ dirs = {}
    /\ files = {}
    /\ logged = <<>>
    /\ trace = <<>>
    /\ faults = 0
    /\ result = EmptyMapping

InitDisk ==
    /\ entry = "save_images_to_disk"
    /\ arg \in DocLists(MaxDocs)
    /\ kwargs \in FlagSetsFor(arg)
    /\ pc = "export"
    /\ response_data = arg
    /\ params = kwargs
    /\ Fresh

InitResponse ==
    /\ entry = "save_images_from_response"
    /\ arg \in Responses
    /\ kwargs \in AdapterFlagSets
    /\ pc = "call"
    /\ response_data = <<>>
    /\ params = kwargs
    /\ Fresh

InitIngestor ==
    /\ entry = "save_images_from_ingestor_results"
    /\ arg \in UNION {[1..k -> ResultElements] : k \in 0..MaxGroups}
    /\ kwargs \in AdapterFlagSets
    /\ pc = "call"
    /\ response_data = <<>>
    /\ params = kwargs
    /\ Fresh

Init == InitDisk \/ InitResponse \/ InitIngestor

\* save_images_from_response, without data: warn and return {}
ResponseNoData ==
    /\ pc = "call"
    /\ entry = "save_images_from_response"
    /\ NoData(arg)
    /\ logged' = <<Text("warning: No data found in response")>>
    /\ result' = EmptyMapping
    /\ pc' = "returned"
    /\ UNCHANGED <<entry, arg, kwargs, response_data, params, doc_idx, image_counts,
                   dirs, files, trace, faults>>

\* save_images_from_response, with data: call save_images_to_disk
ResponseDelegate ==
    /\ pc = "call"
    /\ entry = "save_images_from_response"
    /\ ~NoData(arg)
    /\ response_data' = arg.data[1]
    /\ params' = ResponseKwargs(kwargs)
    /\ logged' = <<>>
    /\ pc' = "export"
    /\ UNCHANGED <<entry, arg, kwargs, doc_idx, image_counts, dirs, files, trace,
                   faults, result>>

\* save_images_from_ingestor_results: flatten and call save_images_to_disk
IngestorDelegate ==
    /\ pc = "call"
    /\ entry = "save_images_from_ingestor_results"
    /\ response_data' = Flatten(arg)
    /\ params' = kwargs
    /\ logged' = <<>>
    /\ pc' = "export"
    /\ UNCHANGED <<entry, arg, kwargs, doc_idx, image_counts, dirs, files, trace,
                   faults, result>>

\* save_images_to_disk, without records: warn and return {}
ExportNoData ==
    /\ pc = "export"
    /\ response_data = <<>>
    /\ logged' = <<Text("warning: No response data provided")>>
    /\ result' = EmptyMapping
    /\ pc' = "returned"
    /\ UNCHANGED <<entry, arg, kwargs, response_data, params, doc_idx, image_counts,
                   dirs, files, trace, faults>>

\* save_images_to_disk, with records: the counters are initialized and the
\* output directory is created; os.makedirs is outside every try block, so
\* its failure leaves the call with an exception
ExportBegin ==
    /\ pc = "export"
    /\ response_data # <<>>
    /\ image_counts' = InitialCounts
    /\ \E makedirs_ok \in BOOLEAN :
          IF makedirs_ok
          THEN /\ dirs' = dirs \cup {OutputDirectory}
               /\ faults' = faults
               /\ pc' = "loop"
          ELSE /\ dirs' = dirs
               /\ faults' = faults + 1
               /\ pc' = "raised"
    /\ logged' = <<>>
    /\ UNCHANGED <<entry, arg, kwargs, response_data, params, doc_idx, files, trace,
                   result>>

\* One iteration of the loop.  The file system may refuse the subdirectory
\* or the file of any record, whatever it did for the records before; a
\* refused subdirectory ends the iteration before the write, so an
\* iteration meets at most one refusal.
ExportDocument ==
    /\ pc = "loop"
    /\ doc_idx < Len(response_data)
    /\ \E prep \in {Prepare(response_data[doc_idx + 1], doc_idx, params)} :
       \E clean \in {IterationResults(prep, {NoError}, {NoError})} :
       \E r \in clean \cup IterationResults(prep, MkdirErrors, {NoError})
                      \cup IterationResults(prep, {NoError}, WriteErrors) :
          LET hit == r \notin clean
          IN  /\ faults' = IF hit THEN faults + 1 ELSE faults
              /\ image_counts' = CountsAfter(image_counts, r)
              /\ dirs' = IF r.type_dir # "" THEN dirs \cup {r.type_dir} ELSE dirs
              /\ files' = IF r.outcome = "saved" THEN files \cup {r.path} ELSE files
              /\ logged' = DocumentLog(r, doc_idx)
              /\ trace' = Append(trace, [doc_idx |-> doc_idx, r |-> Recorded(r)])
              /\ pc' = PcAfterDocument(r.outcome)
    /\ doc_idx' = doc_idx + 1
    /\ UNCHANGED <<entry, arg, kwargs, response_data, params, result>>

\* after the loop: log the summary and return image_counts
ExportReturn ==
    /\ pc = "loop"
    /\ doc_idx = Len(response_data)
    /\ \E count_images \in BOOLEAN :
          logged' = SummaryLog(image_counts, count_images)
    /\ result' = ReturnValue(image_counts)
    /\ pc' = "returned"
    /\ UNCHANGED <<entry, arg, kwargs, response_data, params, doc_idx, image_counts,
                   dirs, files, trace, faults>>

Next ==
    \/ ResponseNoData
    \/ ResponseDelegate
    \/ IngestorDelegate
    \/ ExportNoData
    \/ ExportBegin
    \/ ExportDocument
    \/ ExportReturn

Spec == Init /\ [][Next]_vars

(* ------------------------------ properties ----------------------------- *)

\* the sum of the five per-category counters
Sum5(c) == c["chart"] + c["table"] + c["infographic"] + c["page_image"] + c["image"]

\* the call has returned from save_images_to_disk
ExporterReturned ==
    pc = "returned" /\ (entry = "save_images_from_response" => ~NoData(arg))

\* the record passed the filter in the iteration t
Selected(t) ==
    \/ t.r.outcome \in {"saved", "failed"}
    \/ t.r.outcome = "error" /\ t.r.subtype # ""

\* the flag of a named subtype
FlagOf(subtype, p) ==
    CASE subtype = "chart" -> p.save_charts
      [] subtype = "table" -> p.save_tables
      [] subtype = "infographic" -> p.save_infographics
      [] subtype = "page_image" -> p.save_page_images

\* the destination the naming scheme gives: basename b, category c, page
\* number n, index i, extension e
Destination(b, c, n, i, e, organize) ==
    IF organize
    THEN OutputDirectory \o "/" \o c \o "/" \o b \o "_p" \o ToString(n) \o "_"
         \o ToString(i) \o "." \o e
    ELSE OutputDirectory \o "/" \o b \o "_" \o c \o "_p" \o ToString(n) \o "_"
         \o ToString(i) \o "." \o e

\* the destination of the record of the iteration t
DestinationOf(t) ==
    LET doc == response_data[t.doc_idx + 1]
    IN  Destination(CleanSourceName(doc, t.doc_idx), t.r.subtype, PageNumberOf(doc),
                    t.doc_idx, t.r.ext, params.organize_by_type)

\* the iterations that saved an image of category k
SavedOf(k) == {j \in DOMAIN trace : trace[j].r.outcome = "saved" /\ trace[j].r.subtype = k}

\* C1, as stated: for every input, the returned mapping has a total that is
\* the sum of the five per-category counters.
C1_TotalIsSumForAllInputs ==
    ExporterReturned =>
        IF "total" \in DOMAIN result THEN result["total"] = Sum5(result) ELSE FALSE

\* C1, amended: for every non-empty record list the total equals the sum of
\* the five per-category counters after each record of the pass and in the
\* returned mapping; for an empty record list the returned mapping is empty.
C1_TotalIsSum ==
    /\ pc = "loop" => image_counts["total"] = Sum5(image_counts)
    /\ (ExporterReturned /\ response_data # <<>>) =>
           /\ DOMAIN result = CounterKeys
           /\ result["total"] = Sum5(result)
    /\ (ExporterReturned /\ response_data = <<>>) => result = EmptyMapping

\* a pass of two records returned, one saved and one failed
C1_Witness ==
    /\ ExporterReturned
    /\ Len(trace) = 2
    /\ \E i, j \in DOMAIN trace :
          trace[i].r.outcome = "saved" /\ trace[j].r.outcome = "failed"
    /\ result["total"] = 1

\* C2, as stated: no call ever leaves with an exception.
C2_NeverRaises == pc # "raised"

\* C2, amended: a call leaves with an exception only when the output
\* directory itself cannot be created, before any record is looked at;
\* whatever fails while a record is processed (malformed metadata, invalid
\* base64, corrupt image, category subdirectory, file write) is caught and
\* the call returns a mapping.
C2_OnlyOutputDirectoryRaises ==
    /\ pc = "raised" =>
           /\ trace = <<>>
           /\ doc_idx = 0
           /\ OutputDirectory \notin dirs
           /\ files = {}
           /\ response_data # <<>>
    /\ (trace # <<>> /\ pc # "loop") =>
           /\ pc = "returned"
           /\ DOMAIN result = CounterKeys

\* a call returned although the subdirectory of one record could not be
\* created and the file of another could not be written
C2_Witness ==
    /\ pc = "returned"
    /\ faults = 2
    /\ \E j \in DOMAIN trace : trace[j].r.outcome = "error" /\ trace[j].r.subtype # ""
    /\ \E j \in DOMAIN trace :
          /\ trace[j].r.outcome = "failed"
          /\ response_data[j].content = Some("image")
          /\ trace[j].r.format \in SaveFormats
    /\ DOMAIN result = CounterKeys

\* C3: a record passes the filter exactly when it has non-empty content and
\* either its subtype is one of the four named ones with its flag on (the
\* category is the subtype) or its document_type is "image", its subtype is
\* none of the four and save_raw_images is on (the category is "image"); a
\* record that does not pass writes no file and changes no counter.
C3_Selection ==
    [][(pc = "loop" /\ doc_idx < Len(response_data)) =>
          LET doc == response_data[doc_idx + 1]
              t == trace'[Len(trace')]
              subtype == SubtypeOf(doc)
              named == subtype \in NamedSubtypes /\ FlagOf(subtype, params)
              raw == /\ DocTypeOf(doc) = "image"
                     /\ subtype \notin NamedSubtypes
                     /\ params.save_raw_images
          IN  /\ Selected(t) <=> (HasContent(doc) /\ (named \/ raw))
              /\ Selected(t) => t.r.subtype = IF named THEN subtype ELSE "image"
              /\ ~Selected(t) =>
                    /\ image_counts' = image_counts
                    /\ files' = files
                    /\ dirs' = dirs]_vars

\* a raw image was saved under the category "image" and another record was
\* left out by the filter
C3_Witness ==
    /\ \E j \in DOMAIN trace :
          /\ trace[j].r.outcome = "saved"
          /\ trace[j].r.subtype = "image"
          /\ SubtypeOf(response_data[j]) = "figure"
    /\ \E j \in DOMAIN trace : trace[j].r.outcome = "excluded"

\* C4: a record that fails changes no counter and does not end the pass:
\* the loop goes on to the next index, every record of the list gets its
\* iteration, and the destination and the counter effect of an iteration
\* depend on its own record and index only.
C4_FailureIsolated ==
    [][/\ (pc = "loop" /\ doc_idx < Len(response_data)) =>
             LET t == trace'[Len(trace')]
             IN  /\ Len(trace') = Len(trace) + 1
                 /\ t.doc_idx = doc_idx
                 /\ doc_idx = Len(trace)
                 /\ doc_idx' = doc_idx + 1
                 /\ pc' = "loop"
                 /\ t.r.outcome \in {"error", "failed"} =>
                        image_counts' = image_counts /\ files' = files
                 /\ t.r.path # "" =>
                        LET doc == response_data[doc_idx + 1]
                        IN  t.r.path = Destination(CleanSourceName(doc, doc_idx),
                                                   t.r.subtype, PageNumberOf(doc),
                                                   doc_idx, t.r.ext,
                                                   params.organize_by_type)
                 /\ \A k \in CounterKeys \ {"total"} :
                        image_counts'[k] = Cardinality({j \in DOMAIN trace' :
                            /\ trace'[j].r.outcome = "saved"
                            /\ trace'[j].r.subtype = k})
       /\ (pc = "loop" /\ pc' = "returned") => Len(trace) = Len(response_data)]_vars

\* a pass returned whose first record failed and whose second was saved
C4_Witness ==
    /\ pc = "returned"
    /\ Len(trace) = 2
    /\ trace[1].r.outcome \in {"error", "failed"}
    /\ trace[2].r.outcome = "saved"
    /\ trace[2].doc_idx = 1
    /\ result["total"] = 1

\* C5: a record that passed the filter, with a valid payload and no refusal
\* of the file system, is written to output_directory/c/b_pP_I.e with
\* organize_by_type (the category subdirectory then exists) and to
\* output_directory/b_c_pP_I.e without; with save_charts off a chart record
\* writes no file and the chart counter stays 0, with save_charts and
\* organize_by_type on a chart record alone in its list is exactly one file
\* under chart/ and is counted.
C5_Destination ==
    /\ \A j \in DOMAIN trace :
          LET t == trace[j]
              doc == response_data[j]
          IN  /\ (Selected(t) /\ doc.content = Some("image") /\ faults = 0) =>
                    /\ t.r.path = DestinationOf(t)
                    /\ t.r.path \in files
                    /\ params.organize_by_type =>
                           (OutputDirectory \o "/" \o t.r.subtype) \in dirs
              /\ (HasContent(doc) /\ SubtypeOf(doc) = "chart" /\ ~params.save_charts) =>
                    t.r.outcome = "excluded" /\ t.r.path = ""
              /\ (/\ doc.content = Some("image")
                  /\ SubtypeOf(doc) = "chart"
                  /\ params.save_charts
                  /\ params.organize_by_type
                  /\ Len(response_data) = 1
                  /\ faults = 0) =>
                    /\ files = {Destination(CleanSourceName(doc, j - 1), "chart",
                                            PageNumberOf(doc), j - 1, t.r.ext, TRUE)}
                    /\ image_counts["chart"] = 1
    /\ (image_counts # EmptyMapping /\ ~params.save_charts) => image_counts["chart"] = 0

\* C6: a record of document_type "image" whose image_type is "jpeg" in any
\* letter case, with a valid payload, that passed the filter and met no
\* failure of the file system, is written with the extension "jpg" and the
\* format name "JPEG", and is counted; a record of another document_type
\* has the encoding "png" whatever its image_type.
C6_JpegWrittenAsJpg ==
    \A j \in DOMAIN trace :
        LET t == trace[j]
            doc == response_data[j]
        IN  /\ (/\ t.r.path # ""
                /\ DocTypeOf(doc) = "image"
                /\ Lower(Get(doc.image_type, TypePng)) = TypeJpeg
                /\ doc.content = Some("image")
                /\ faults = 0) =>
                    /\ t.r.ext = "jpg"
                    /\ t.r.format = "JPEG"
                    /\ t.r.outcome = "saved"
            /\ (t.r.path # "" /\ DocTypeOf(doc) # "image") => t.r.ext = "png"

\* C7: without data the response adapter warns, returns the empty mapping,
\* does not enter the exporter and creates nothing; with data it calls the
\* exporter with that list and the caller's flags and returns its result:
\* every record of the list gets the iteration the exporter gives it under
\* these flags, the result counts the saved records and the files are theirs.
C7_ResponseDelegates ==
    entry = "save_images_from_response" =>
        IF NoData(arg)
        THEN /\ pc \in {"call", "returned"}
             /\ dirs = {} /\ files = {} /\ trace = <<>>
             /\ image_counts = EmptyMapping
             /\ pc = "returned" =>
                    /\ result = EmptyMapping
                    /\ logged = <<Text("warning: No data found in response")>>
        ELSE /\ pc # "call" => response_data = arg.data[1]
             /\ \A j \in DOMAIN trace :
                    \E m \in {NoError} \cup MkdirErrors, w \in {NoError} \cup WriteErrors :
                        trace[j].r = Recorded(ProcessDocument(arg.data[1][j], j - 1, kwargs,
                                                              m, w))
             /\ pc = "returned" =>
                    /\ Len(trace) = Len(arg.data[1])
                    /\ DOMAIN result = CounterKeys
                    /\ \A k \in CounterKeys \ {"total"} :
                           result[k] = Cardinality(SavedOf(k))
                    /\ result["total"] =
                           Cardinality({j \in DOMAIN trace : trace[j].r.outcome = "saved"})
                    /\ files = {trace[j].r.path : j \in {i \in DOMAIN trace :
                                                     trace[i].r.outcome = "saved"}}

\* the adapter returned the counts of a list saved under flags that are not
\* the defaults
C7_Witness ==
    /\ entry = "save_images_from_response"
    /\ pc = "returned"
    /\ ~NoData(arg)
    /\ kwargs # DefaultFlags
    /\ Len(arg.data[1]) = 2
    /\ result["image"] = 1
    /\ result["total"] = 2

\* the number of document results in an element of the nested list
SizeOf(doc_results) == IF doc_results.is_list THEN Len(doc_results.docs) ELSE 1

\* the number of document results in the elements before the g-th
RECURSIVE SizeBefore(_, _)
SizeBefore(results, g) ==
    IF g = 1 THEN 0 ELSE SizeBefore(results, g - 1) + SizeOf(results[g - 1])

\* C8: the batch adapter hands the exporter the document results in their
\* order: the k-th result of the g-th element comes right after the results
\* of the elements before it, and the exporter visits them with the
\* consecutive indices 0, 1, 2, ... which end up in the file names.
C8_FlattenKeepsOrder ==
    (entry = "save_images_from_ingestor_results" /\ pc # "call") =>
        /\ Len(response_data) = SizeBefore(arg, Len(arg) + 1)
        /\ \A g \in DOMAIN arg : \A k \in 1..SizeOf(arg[g]) :
               response_data[SizeBefore(arg, g) + k] = arg[g].docs[k]
        /\ \A j \in DOMAIN trace :
               /\ trace[j].doc_idx = j - 1
               /\ trace[j].r.path # "" => trace[j].r.path = DestinationOf(trace[j])
        /\ pc = "returned" => Len(trace) = Len(response_data)

\* [[rec1, rec2], rec3] was processed and gave three files
C8_Witness ==
    /\ entry = "save_images_from_ingestor_results"
    /\ pc = "returned"
    /\ Len(arg) = 2
    /\ arg[1].is_list /\ Len(arg[1].docs) = 2
    /\ ~arg[2].is_list
    /\ arg[1].docs[1] # arg[1].docs[2]
    /\ arg[2].docs[1] = arg[1].docs[1]
    /\ files = {"out/r.p_chart_p2_0.png", "out/r_1_image_p1_1.gif",
                "out/r.p_chart_p2_2.png"}

\* the call was given no document result
NoInput ==
    CASE entry = "save_images_to_disk" -> arg = <<>>
      [] entry = "save_images_from_response" -> NoData(arg)
      [] entry = "save_images_from_ingestor_results" ->
             \A g \in DOMAIN arg : arg[g].is_list /\ arg[g].docs = <<>>

\* C9: a call returns a mapping of exactly the six keys to non-negative
\* integers, also when every count is zero; it returns the empty mapping
\* only when it was given no document result.
C9_SixKeys ==
    pc = "returned" =>
        IF NoInput THEN result = EmptyMapping
        ELSE /\ DOMAIN result = CounterKeys
             /\ \A k \in CounterKeys : result[k] \in Nat

\* a call whose two records were both refused their subdirectory returned
\* the six keys, every count zero
C9_Witness ==
    /\ pc = "returned"
    /\ Len(trace) = 2
    /\ \A j \in DOMAIN trace : trace[j].r.outcome = "error" /\ trace[j].r.subtype = "chart"
    /\ result = [k \in CounterKeys |-> 0]

\* C10: within one call no two records have the same destination, so no
\* file of the call is overwritten by a later record and the call wrote as
\* many files as it counted.
C10_NoCollision ==
    /\ \A i, j \in DOMAIN trace :
          (i # j /\ trace[i].r.path # "" /\ trace[j].r.path # "") =>
              trace[i].r.path # trace[j].r.path
    /\ image_counts # EmptyMapping => Cardinality(files) = image_counts["total"]
    /\ pc = "returned" => Cardinality(files) =
                              (IF result = EmptyMapping THEN 0 ELSE result["total"])

\* the same record twice in one list gave two files
C10_Witness ==
    /\ pc = "returned"
    /\ Len(response_data) = 2
    /\ response_data[1] = response_data[2]
    /\ Cardinality(files) = 2
    /\ result["total"] = 2

====
